---- MODULE Spec2Model ----
(***************************************************************************)
(* bazel-remote-tiered-cache: the caching transport (main.go), its body    *)
(* tee (cachingReadCloser) and the S3 director (s3.go).                    *)
(*                                                                         *)
(* A request travels  ProxyFrontend -> Director -> cachingTransport.       *)
(* RoundTrip -> backend, and its body is read by the frontend through the  *)
(* tee.  Time is counted in ticks; a Date header carries whole seconds.    *)
(***************************************************************************)
EXTENDS Integers, Sequences, FiniteSets, TLC

VARIABLES
    cache,        \* t.Cache: key -> [ok, val], val the serialized response
    now,          \* time.Now(), in ticks
    alive,        \* FALSE once log.Fatal / log.Fatalf has ended the process
    allowWrites,  \* flag -allow-writes
    cacheOn,      \* t.Cache != nil  (flag -cache-dir non-empty)
    backend,      \* flag -backend, parsed: [scheme, path]
    reqs,         \* per request slot: position and locals of the handler
    committed,    \* history: key -> the backend response last committed
    ek            \* one call of effectiveKey: its arguments and its result

vars == <<cache, now, alive, allowWrites, cacheOn, backend, reqs, committed, ek>>

----------------------------------------------------------------------------
(* Bounds and the configured refresh delay *)

MaxTime == 3            \* the clock stops after MaxTime ticks
MaxBody == 2            \* longest response body, in bytes
cacheRefreshDelay == 1  \* flag -cache-refresh-delay (default 60), in minutes
Second == 2             \* ticks per second: a Date header truncates to seconds
MaxLen == 3             \* longest prefix and path given to effectiveKey
MaxExtraReads == 1      \* Read calls a caller issues after the end was signalled
maxRetries == 2         \* flag -max-retries (default 1)

(* Program constants *)

StatusOK == 200
StatusNotFound == 404
StatusMethodNotAllowed == 405

Minute == Second        \* time.Minute, compressed to the Date granularity

Slots == {"r1", "r2"}
SeqSlots == {"r1"}      \* the slot used when requests are served one at a time

MethodGet == "GET"
MethodPut == "PUT"
Methods == {MethodGet, MethodPut, "POST"}

Slash == "/"
Paths == {<<Slash, "a">>, <<Slash, "a", Slash>>}
Backends == {[scheme |-> "s3", path |-> <<Slash, "p">>],
             [scheme |-> "http", path |-> <<>>]}

GarbageDate == -1       \* a Date header value http.ParseTime rejects
BackendStatuses == {StatusOK, StatusNotFound}

Min(a, b) == IF a < b THEN a ELSE b

----------------------------------------------------------------------------
(* s3.go *)

RECURSIVE TrimLeft(_)
TrimLeft(s) == IF s # <<>> /\ Head(s) = Slash THEN TrimLeft(Tail(s)) ELSE s

RECURSIVE TrimRight(_)
TrimRight(s) ==
    IF s # <<>> /\ s[Len(s)] = Slash THEN TrimRight(SubSeq(s, 1, Len(s) - 1)) ELSE s

Trim_LeftOnly(s) == TrimLeft(s)

\* strings.Trim(s, "/")
Trim(s) == TrimRight(TrimLeft(s))

effectiveKey(prefix, userPath) ==
    LET t == Trim(userPath) IN
    IF prefix = <<>> THEN t
    ELSE IF t = <<>> THEN prefix
    ELSE prefix \o <<Slash>> \o t

\* newS3Director: prefix := strings.Trim(url.Path, "/")
S3Prefix(b) == Trim(b.path)

\* The path of the URL the director leaves in r.URL: the presigned object URL
\* for s3, the inbound path for a generic origin.
DirectedPath(b, p) ==
    IF b.scheme = "s3" THEN <<Slash>> \o effectiveKey(S3Prefix(b), p) ELSE p

\* r.URL.RawQuery: none, or one the client sent; the presigned object URL
\* carries the signature parameters instead.
NoQuery == <<>>
Queries == {NoQuery, <<"?", "q">>}
PresignQuery == <<"?", "X-Amz-Signature">>

\* What a cache key can be: a directed path, or (were the query part of it)
\* a directed path with a query.
Keys == {DirectedPath(b, p) \o qy :
            b \in Backends, p \in Paths, qy \in Queries \cup {PresignQuery}}

----------------------------------------------------------------------------
(* Responses and their serialized form *)

\* An http.Response as the transport sees it: status, the values of the Date
\* header, the body bytes.
NoResp == [status |-> 0, date |-> <<>>, body |-> <<>>]

\* The bytes 1..n of a body of n bytes.
BodyOf(n) == [i \in 1..n |-> i]

\* The backend's clock formatted as a Date header value: whole seconds.
FormatDate(t) == t \div Second

\* http.ParseTime: [ok, t]
ParseTime(v) == IF v = GarbageDate THEN [ok |-> FALSE, t |-> 0]
                ELSE [ok |-> TRUE, t |-> v * Second]

\* httputil.DumpResponse(&resp, true): status line, header block, body.
DumpResponse(resp) == <<resp.status, Len(resp.date)>> \o resp.date \o resp.body

\* http.ReadResponse: [ok, resp]
ReadResponse(b) ==
    IF Len(b) < 2 \/ Len(b) < 2 + b[2]
    THEN [ok |-> FALSE, resp |-> NoResp]
    ELSE [ok |-> TRUE,
          resp |-> [status |-> b[1],
                    date |-> SubSeq(b, 3, 2 + b[2]),
                    body |-> SubSeq(b, 3 + b[2], Len(b))]]

Absent == [ok |-> FALSE, val |-> <<>>]
Stored(b) == [ok |-> TRUE, val |-> b]
Malformed == Stored(<<>>)

\* cachedResponse: "none" (not found), "err" (malformed), or "resp"
cachedResponse(c, key) ==
    IF ~c[key].ok THEN [kind |-> "none", resp |-> NoResp]
    ELSE LET r == ReadResponse(c[key].val) IN
         IF r.ok THEN [kind |-> "resp", resp |-> r.resp]
         ELSE [kind |-> "err", resp |-> NoResp]

newDroppedResponse_Forbidden == [status |-> 403, date |-> <<>>, body |-> <<>>]

\* newDroppedResponse: "HTTP/1.1 405 Method Not Allowed\r\n\r\n"
newDroppedResponse == [status |-> StatusMethodNotAllowed, date |-> <<>>, body |-> <<>>]

----------------------------------------------------------------------------
(* Request slots *)

NoStream == [rem |-> <<>>, end |-> "none", ended |-> FALSE, closed |-> FALSE]

\* What is remembered of the request a slot served before the present one.
NoOutcome == [method |-> "", path |-> <<>>, query |-> NoQuery, found |-> "",
              decision |-> "", status |-> 0, commits |-> 0,
              before |-> Absent, left |-> Absent]

IdleReq == [pc |-> "idle", method |-> MethodGet, path |-> <<>>,
            logAction |-> "", resp |-> NoResp, err |-> "",
            seenKind |-> "", seen |-> NoResp, at |-> 0,
            origin |-> NoResp, R |-> NoStream, buf |-> <<>>,
            calls |-> 0, commits |-> 0, extra |-> 0, lastRead |-> "none",
            presign |-> "none", before |-> Absent,
            audit |-> <<>>, query |-> NoQuery, prev |-> NoOutcome]

\* No call of effectiveKey is being looked at.
NoKeyCall == [pc |-> "none", prefix |-> <<>>, path |-> <<>>, key |-> <<>>]

\* The keys requests can address under backend b.
KeysOf(b) == {DirectedPath(b, p) : p \in Paths}

\* The cache directory outlives the process: at start a key is absent or
\* holds a damaged file.
Init ==
    /\ backend \in Backends
    /\ cache \in [Keys -> {Absent, Malformed}]
    /\ \A k \in Keys \ KeysOf(backend) : cache[k] = Absent
    /\ now = 0
    /\ alive = TRUE
    /\ allowWrites \in BOOLEAN
    /\ cacheOn \in BOOLEAN
    /\ ~cacheOn => \A k \in Keys : cache[k] = Absent
    /\ reqs = [r \in Slots |-> IdleReq]
    /\ committed = [k \in Keys |-> NoResp]
    /\ ek = NoKeyCall

----------------------------------------------------------------------------
(* ProxyFrontend: a request arrives and is handed to the director *)

Arrive(r, m, p) ==
    /\ alive
    /\ reqs[r].pc \in {"idle", "done", "panic"}
    /\ reqs' = [reqs EXCEPT ![r] = [IdleReq EXCEPT !.pc = "director",
                                                   !.method = m, !.path = p]]
    /\ UNCHANGED <<cache, now, alive, allowWrites, cacheOn, backend, ek, committed>>

\* How request q ended, as the next request on its slot finds things.
Outcome(q) ==
    [method |-> q.method, path |-> q.path, query |-> q.query,
     found |-> q.seenKind, decision |-> q.logAction,
     status |-> q.resp.status, commits |-> q.commits,
     before |-> q.before,
     left |-> IF q.path \in Keys THEN cache[q.path] ELSE Absent]

\* A request with query qy arrives on a slot that has served one before.
ArriveAfter(r, m, p, qy) ==
    /\ alive
    /\ reqs[r].pc \in {"idle", "done", "panic"}
    /\ reqs' = [reqs EXCEPT ![r] = [IdleReq EXCEPT !.pc = "director",
                                                   !.method = m, !.path = p,
                                                   !.query = qy,
                                                   !.prev = Outcome(reqs[r])]]
    /\ UNCHANGED <<cache, now, alive, allowWrites, cacheOn, backend, ek, committed>>

\* s3Director.Direct; the generic origin's director leaves the path alone.
\* log.Fatal ends the process.
Direct(r) ==
    /\ alive
    /\ reqs[r].pc = "director"
    /\ \/ /\ backend.scheme = "s3"
          /\ reqs[r].method \in {MethodGet, MethodPut}
          /\ \/ /\ reqs' = [reqs EXCEPT ![r].pc = "roundtrip",
                                        ![r].presign = "ok",
                                        ![r].path = DirectedPath(backend, reqs[r].path),
                                        ![r].query = PresignQuery]
                /\ UNCHANGED alive
             \/ /\ reqs' = [reqs EXCEPT ![r].pc = "fatal", ![r].presign = "failed"]
                /\ alive' = FALSE
       \/ /\ backend.scheme = "s3"
          /\ reqs[r].method \notin {MethodGet, MethodPut}
          /\ reqs' = [reqs EXCEPT ![r].pc = "fatal"]
          /\ alive' = FALSE
       \/ /\ backend.scheme # "s3"
          /\ reqs' = [reqs EXCEPT ![r].pc = "roundtrip",
                                  ![r].path = DirectedPath(backend, reqs[r].path)]
          /\ UNCHANGED alive
    /\ UNCHANGED <<cache, now, allowWrites, cacheOn, backend, ek, committed>>

----------------------------------------------------------------------------
(* cachingTransport.RoundTrip *)

doCache_AnyMethod(method) == cacheOn

cacheKey_WithQuery(q) == q.path \o q.query

\* Line 90: cacheKey := req.URL.Path
cacheKey(q) == q.path

doCache(method) == method = MethodGet /\ cacheOn

\* old := cachedAt.Add(cacheRefreshDelay * time.Minute).Before(time.Now())
old_AtDelay(cachedAt, t) == cachedAt + cacheRefreshDelay * Minute <= t

old(cachedAt, t) == cachedAt + cacheRefreshDelay * Minute < t

IsHit_FreshOnly(status, isOld) == ~isOld

IsHit(status, isOld) == status = StatusOK \/ ~isOld

PassesThrough_AnyPut(method) == method = MethodPut \/ method = MethodGet

PassesThrough(method) ==
    (method = MethodPut /\ allowWrites) \/ method = MethodGet

FinalLogAction_KeepTag(logAction, err) == logAction

\* Lines 93-96, the deferred function: an error overrides the decision tag.
FinalLogAction(logAction, err) == IF err # "" THEN "ERROR" ELSE logAction

\* Line 101: log.Printf of the audit record, when RoundTrip returns or panics
\* (not when log.Fatalf exits the process: deferred calls do not run).
Logged(q) == [q EXCEPT !.logAction = FinalLogAction(q.logAction, q.err),
                       !.audit = Append(q.audit, FinalLogAction(q.logAction, q.err))]

\* Lines 104-135: the decision.  The cache is read once (Cache.Get); the
\* Delete of a REFRESH and the backend call are later steps.
Decide(r) ==
    LET q == reqs[r]
        c == cachedResponse(cache, cacheKey(q))
    IN
    /\ alive
    /\ q.pc = "roundtrip"
    /\ IF doCache(q.method)
       THEN \/ /\ c.kind = "err"
               /\ reqs' = [reqs EXCEPT ![r].pc = "fetch", ![r].seenKind = "err"]
               /\ UNCHANGED alive
            \/ /\ c.kind = "none"
               /\ reqs' = [reqs EXCEPT ![r].pc = "fetch", ![r].seenKind = "none",
                                       ![r].logAction = "CACHE_MISS"]
               /\ UNCHANGED alive
            \/ /\ c.kind = "resp"
               /\ c.resp.date = <<>>
               \* resp.Header["Date"][0]: index out of range, the handler panics
               /\ reqs' = [reqs EXCEPT ![r] = Logged([q EXCEPT !.pc = "panic",
                                                                !.seenKind = "resp",
                                                                !.seen = c.resp])]
               /\ UNCHANGED alive
            \/ /\ c.kind = "resp"
               /\ c.resp.date # <<>>
               /\ ~ParseTime(c.resp.date[1]).ok
               \* log.Fatalf("Failed to parse cached request Date")
               /\ reqs' = [reqs EXCEPT ![r].pc = "fatal", ![r].seenKind = "resp",
                                       ![r].seen = c.resp]
               /\ alive' = FALSE
            \/ /\ c.kind = "resp"
               /\ c.resp.date # <<>>
               /\ ParseTime(c.resp.date[1]).ok
               /\ LET cachedAt == ParseTime(c.resp.date[1]).t IN
                  IF IsHit(c.resp.status, old(cachedAt, now))
                  THEN reqs' = [reqs EXCEPT ![r] =
                                   Logged([q EXCEPT !.pc = "done", !.seenKind = "resp",
                                                    !.seen = c.resp, !.at = now,
                                                    !.logAction = "CACHE_HIT",
                                                    !.resp = c.resp])]
                  ELSE reqs' = [reqs EXCEPT ![r].pc = "delete", ![r].seenKind = "resp",
                                            ![r].seen = c.resp, ![r].at = now,
                                            ![r].logAction = "CACHE_REFRESH"]
               /\ UNCHANGED alive
       ELSE /\ IF PassesThrough(q.method)
               THEN reqs' = [reqs EXCEPT ![r].pc = "fetch",
                                         ![r].logAction = "PASSTHROUGH"]
               ELSE reqs' = [reqs EXCEPT ![r] =
                                Logged([q EXCEPT !.pc = "done", !.logAction = "DROP",
                                                 !.resp = newDroppedResponse])]
            /\ UNCHANGED alive
    /\ UNCHANGED <<cache, now, allowWrites, cacheOn, backend, ek, committed>>

Delete_Skip(r) ==
    /\ alive
    /\ reqs[r].pc = "delete"
    /\ reqs' = [reqs EXCEPT ![r].pc = "fetch"]
    /\ UNCHANGED <<cache, now, alive, allowWrites, cacheOn, backend, ek, committed>>

\* Line 125: t.Cache.Delete(cacheKey)
Delete(r) ==
    /\ alive
    /\ reqs[r].pc = "delete"
    /\ cache' = [cache EXCEPT ![cacheKey(reqs[r])] = Absent]
    /\ reqs' = [reqs EXCEPT ![r].pc = "fetch"]
    /\ UNCHANGED <<now, alive, allowWrites, cacheOn, backend, ek, committed>>

\* The backend is an object store: the object under a key has a fixed
\* content, and an answer other than 200 carries no body.
ObjectBody(k) == BodyOf(IF k[Len(k)] = Slash THEN 1 ELSE MaxBody)

\* What the backend may answer for key k at time t: status, Date header, body.
BackendResponses(k, t) ==
    {[status |-> s, date |-> d,
      body |-> IF s = StatusOK THEN ObjectBody(k) ELSE <<>>] :
        s \in BackendStatuses,
        d \in {<<FormatDate(t)>>, <<>>, <<GarbageDate>>}}

\* main, lines 180-201: baseTransport is the retrying transport when
\* max-retries > 1, but cachingTransport.Transport is set to
\* http.DefaultTransport.
baseTransport == IF maxRetries > 1 THEN "rehttp" ELSE "default"

InnerTransport == "default"

\* The attempts t.Transport makes for one RoundTrip before it gives up:
\* rehttp.RetryMaxRetries(n) retries while the attempt index is below n.
MaxAttempts == IF InnerTransport = "rehttp" THEN maxRetries + 1 ELSE 1

\* Lines 137-153: t.Transport.RoundTrip(req), then the tee around the body.
\* The transport fails on every attempt it makes, or answers on attempt a.
\* The body stream ends by EOF after all its bytes, or by a read error after
\* the first k of them.
Fetch(r) ==
    LET q == reqs[r] IN
    /\ alive
    /\ q.pc = "fetch"
    /\ \/ reqs' = [reqs EXCEPT ![r] =
                     Logged([q EXCEPT !.pc = "done", !.err = "transport",
                                      !.before = cache[cacheKey(q)],
                                      !.calls = q.calls + MaxAttempts])]
       \/ /\ doCache(q.method)
          /\ \E o \in BackendResponses(q.path, now), end \in {"EOF", "err"},
                a \in 1..MaxAttempts :
             \E k \in (IF end = "EOF" THEN {Len(o.body)} ELSE 0..Len(o.body)) :
                reqs' = [reqs EXCEPT ![r] =
                           Logged([q EXCEPT !.pc = "body",
                                            !.calls = q.calls + a,
                                            !.origin = o,
                                            !.before = cache[cacheKey(q)],
                                            !.resp = [o EXCEPT !.body = <<>>],
                                            !.R = [NoStream EXCEPT
                                                     !.rem = SubSeq(o.body, 1, k),
                                                     !.end = end]])]
       \/ /\ ~doCache(q.method)
          /\ \E o \in BackendResponses(q.path, now), a \in 1..MaxAttempts :
                reqs' = [reqs EXCEPT ![r] =
                           Logged([q EXCEPT !.pc = "done",
                                            !.calls = q.calls + a,
                                            !.before = cache[cacheKey(q)],
                                            !.resp = o])]
    /\ UNCHANGED <<cache, now, alive, allowWrites, cacheOn, backend, ek, committed>>

----------------------------------------------------------------------------
(* cachingReadCloser *)

\* r.R.Read(p) with len(p) = n: the outcomes [n, data, err, R] the underlying
\* stream may produce.  Its end (EOF or error) may come with the last bytes
\* or on a read of its own, and is repeated on every later read.
UnderlyingRead(R, n) ==
    IF R.closed
    THEN {[data |-> <<>>, err |-> "closed", R |-> R]}
    ELSE IF R.ended \/ R.rem = <<>>
    THEN {[data |-> <<>>, err |-> R.end, R |-> [R EXCEPT !.ended = TRUE]]}
    ELSE {[data |-> SubSeq(R.rem, 1, k), err |-> "nil",
           R |-> [R EXCEPT !.rem = SubSeq(R.rem, k + 1, Len(R.rem))]] :
              k \in 1..Min(n, Len(R.rem))}
         \cup
         {[data |-> R.rem, err |-> R.end,
           R |-> [R EXCEPT !.rem = <<>>, !.ended = TRUE]] :
              k \in {Len(R.rem)} \cap 1..n}

BufWrite_LastChunk(buf, data) == data

\* Line 58: r.buf.Write(p[:n])
BufWrite(buf, data) == buf \o data

CallsOnEOF_AnyError(err) == err # "nil"

\* Line 59: if err == io.EOF
CallsOnEOF(err) == err = "EOF"

OnEOF_OnlyOK(resp, key, bytes, c) ==
    IF resp.status = StatusOK
    THEN [c EXCEPT ![key] = Stored(DumpResponse([resp EXCEPT !.body = bytes]))]
    ELSE c

\* Lines 143-150: the OnEOF closure of RoundTrip: the response with the
\* buffered bytes as its body, dumped and stored under cacheKey.
OnEOF(resp, key, bytes, c) ==
    [c EXCEPT ![key] = Stored(DumpResponse([resp EXCEPT !.body = bytes]))]

\* Lines 56-63: cachingReadCloser.Read
TeeRead(r, n, again) ==
    LET q == reqs[r] IN
    \E o \in UnderlyingRead(q.R, n) :
        LET buf == BufWrite(q.buf, o.data) IN
        /\ IF CallsOnEOF(o.err)
           THEN /\ cache' = OnEOF(q.resp, cacheKey(q), buf, cache)
                /\ committed' = [committed EXCEPT ![cacheKey(q)] = q.origin]
           ELSE UNCHANGED <<cache, committed>>
        /\ reqs' = [reqs EXCEPT ![r].R = o.R, ![r].buf = buf,
                                ![r].lastRead = o.err,
                                ![r].extra = IF again THEN q.extra + 1 ELSE q.extra,
                                ![r].commits = IF CallsOnEOF(o.err)
                                               THEN q.commits + 1 ELSE q.commits]

\* The frontend copies the body: it reads until a read returns an error.
Read(r, n) ==
    /\ alive
    /\ reqs[r].pc = "body"
    /\ reqs[r].lastRead \in {"none", "nil"}
    /\ TeeRead(r, n, FALSE)
    /\ UNCHANGED <<now, alive, allowWrites, cacheOn, backend, ek>>

\* A caller that reads again after the end of the body was signalled, or
\* after it closed the body.
ReadAfterEnd(r, n) ==
    /\ alive
    /\ reqs[r].pc \in {"body", "done"}
    /\ reqs[r].R.end # "none"
    /\ reqs[r].lastRead \notin {"none", "nil"} \/ reqs[r].R.closed
    /\ reqs[r].extra < MaxExtraReads
    /\ TeeRead(r, n, TRUE)
    /\ UNCHANGED <<now, alive, allowWrites, cacheOn, backend, ek>>

\* Lines 65-67: Close, at any point of the body (a caller that disconnects
\* closes before the end).
Close(r) ==
    /\ alive
    /\ reqs[r].pc = "body"
    /\ reqs' = [reqs EXCEPT ![r].pc = "done", ![r].R.closed = TRUE]
    /\ UNCHANGED <<cache, now, alive, allowWrites, cacheOn, backend, ek, committed>>

----------------------------------------------------------------------------
Tick ==
    /\ alive
    /\ now < MaxTime
    /\ now' = now + 1
    /\ UNCHANGED <<cache, alive, allowWrites, cacheOn, backend, ek, reqs, committed>>

Step(r) ==
    \/ \E m \in Methods, p \in Paths : Arrive(r, m, p)
    \/ Direct(r)
    \/ Decide(r)
    \/ Delete(r)
    \/ Fetch(r)
    \/ \E n \in 1..MaxBody : Read(r, n)
    \/ Close(r)

\* Requests served one at a time.
Next == Tick \/ \E r \in SeqSlots : Step(r)

Spec == Init /\ [][Next]_vars

\* The same, with callers that read on after the end of a body.
NextTee == Next \/ \E r \in SeqSlots, n \in 1..MaxBody : ReadAfterEnd(r, n)

SpecTee == Init /\ [][NextTee]_vars

\* Requests served one after the other on one connection, with queries.
StepAfter(r) ==
    \/ \E m \in Methods, p \in Paths, qy \in Queries : ArriveAfter(r, m, p, qy)
    \/ Direct(r)
    \/ Decide(r)
    \/ Delete(r)
    \/ Fetch(r)
    \/ \E n \in 1..MaxBody : Read(r, n)
    \/ Close(r)

NextSeq == Tick \/ \E r \in SeqSlots : StepAfter(r)

\* The proxy starts on an empty cache directory, with -allow-writes.
InitSeq ==
    /\ Init
    /\ allowWrites
    /\ \A k \in Keys : cache[k] = Absent

SpecSeq == InitSeq /\ [][NextSeq]_vars

\* Concurrent requests: net/http serves every connection on a goroutine of
\* its own, so the steps of two RoundTrip calls interleave.  The S3 origin,
\* a cache directory that starts empty, -allow-writes left at its default.
InitConc ==
    /\ Init
    /\ backend.scheme = "s3"
    /\ cacheOn
    /\ ~allowWrites
    /\ \A k \in Keys : cache[k] = Absent

StepConc(r) ==
    \/ \E m \in Methods, p \in Paths : Arrive(r, m, p)
    \/ Direct(r)
    \/ Decide(r)
    \/ Delete(r)
    \/ Fetch(r)
    \/ \E n \in 1..MaxBody : Read(r, n)
    \/ Close(r)

NextConc == Tick \/ \E r \in Slots : StepConc(r)

SpecConc == InitConc /\ [][NextConc]_vars

----------------------------------------------------------------------------
(* effectiveKey on its own: every prefix and path up to MaxLen characters *)

Chars == {Slash, "a"}
Strings == UNION {[1..n -> Chars] : n \in 0..MaxLen}

InitKey ==
    /\ backend = [scheme |-> "s3", path |-> <<Slash, "p">>]
    /\ cache = [k \in Keys |-> Absent]
    /\ now = 0
    /\ alive = TRUE
    /\ allowWrites = FALSE
    /\ cacheOn = FALSE
    /\ reqs = [r \in Slots |-> IdleReq]
    /\ committed = [k \in Keys |-> NoResp]
    /\ \E u \in Strings, p \in Strings :
          ek = [pc |-> "url", prefix |-> u, path |-> p, key |-> <<>>]

\* newS3Director: the prefix is the backend URL's path, trimmed.
NewS3Director ==
    /\ ek.pc = "url"
    /\ ek' = [ek EXCEPT !.pc = "prefix",
                        !.prefix = S3Prefix([scheme |-> "s3", path |-> ek.prefix])]
    /\ UNCHANGED <<cache, now, alive, allowWrites, cacheOn, backend, reqs, committed>>

\* effectiveKey(prefix, path), on the prefix as given or as the director
\* holds it.
CallEffectiveKey ==
    /\ ek.pc \in {"url", "prefix"}
    /\ ek' = [ek EXCEPT !.pc = "done", !.key = effectiveKey(ek.prefix, ek.path)]
    /\ UNCHANGED <<cache, now, alive, allowWrites, cacheOn, backend, reqs, committed>>

NextKey == NewS3Director \/ CallEffectiveKey

SpecKey == InitKey /\ [][NextKey]_vars

----------------------------------------------------------------------------
(* Vocabulary of the properties *)

Delay == cacheRefreshDelay * Minute

\* The Date header of a response parses: the entry has a stored time.
DateOK(resp) == resp.date # <<>> /\ ParseTime(resp.date[1]).ok

StoredTime(resp) == ParseTime(resp.date[1]).t

\* Request q looked its key up and found an entry with a stored time.
Found(q) == q.seenKind = "resp" /\ DateOK(q.seen)

\* now - T at the moment q was decided.
Age(q) == q.at - StoredTime(q.seen)

\* The entry under q's key is the one q found.
StillStored(q) == cache[q.path] = Stored(DumpResponse(q.seen))

\* q was answered from the store: the cached response, no backend call.
ServedFromStore(q) ==
    /\ q.pc = "done"
    /\ q.logAction = "CACHE_HIT"
    /\ q.resp = q.seen
    /\ q.err = ""
    /\ q.calls = 0

\* q evicts what it found and asks the backend again.
Refreshes(q) ==
    /\ q.pc \in {"delete", "fetch", "body", "done"}
    /\ q.logAction \in {"CACHE_REFRESH", "ERROR"}
    /\ q.pc = "fetch" => cache[q.path] = Absent
    /\ q.pc \in {"body", "done"} => q.calls = 1 /\ q.before = Absent

----------------------------------------------------------------------------
\* C1: a GET that finds an entry with status 200 (and a stored time) is a
\* HIT whatever the entry's age: the cached response is returned, the entry
\* stays in the store, the backend is not called.
C1_SuccessAlwaysHit ==
    \A r \in Slots :
        (Found(reqs[r]) /\ reqs[r].seen.status = StatusOK)
            => ServedFromStore(reqs[r]) /\ StillStored(reqs[r])

C1_Witness ==
    \E r \in Slots :
        /\ Found(reqs[r])
        /\ reqs[r].seen.status = StatusOK
        /\ Age(reqs[r]) > Delay
        /\ ServedFromStore(reqs[r])

\* C2 as stated: a non-success entry is a HIT exactly when now - T < delay,
\* and is refreshed from now - T = delay on.
C2_HitStrictlyBeforeDelay ==
    \A r \in Slots :
        (Found(reqs[r]) /\ reqs[r].seen.status # StatusOK)
            => /\ Age(reqs[r]) < Delay => ServedFromStore(reqs[r])
               /\ Age(reqs[r]) >= Delay => Refreshes(reqs[r])

\* C2, amended: a non-success entry is a HIT exactly when now - T <= delay
\* (the instant now - T = delay included); when now - T > delay the entry is
\* deleted and the backend is asked again.
C2_HitUntilDelayInclusive ==
    \A r \in Slots :
        (Found(reqs[r]) /\ reqs[r].seen.status # StatusOK)
            => /\ Age(reqs[r]) <= Delay => ServedFromStore(reqs[r])
               /\ Age(reqs[r]) > Delay => Refreshes(reqs[r])

C2_Witness ==
    \E r \in Slots :
        /\ Found(reqs[r])
        /\ reqs[r].seen.status # StatusOK
        /\ Age(reqs[r]) = Delay
        /\ ServedFromStore(reqs[r])

\* C3: a non-success backend response drained to EOF is committed under the
\* request's key; a later GET that finds it before the delay has elapsed is
\* served from the store without a backend call, and one that finds it after
\* the delay has elapsed calls the backend again.
C3_NegativeCaching ==
    \A r \in Slots :
        LET q == reqs[r] IN
        /\ (q.pc \in {"body", "done"} /\ q.R.ended /\ q.R.end = "EOF"
                /\ q.origin.status # StatusOK)
              => /\ cache[q.path] = Stored(DumpResponse(q.origin))
                 /\ committed[q.path] = q.origin
        /\ (Found(q) /\ q.seen.status # StatusOK /\ q.seen = committed[q.path])
              => /\ Age(q) < Delay => ServedFromStore(q)
                 /\ (Age(q) > Delay /\ q.pc = "done") => q.calls = 1

C3_Witness ==
    \E r \in Slots :
        LET q == reqs[r] IN
        /\ Found(q)
        /\ q.seen.status = StatusNotFound
        /\ q.seen = committed[q.path]
        /\ q.at > StoredTime(q.seen)
        /\ Age(q) < Delay
        /\ ServedFromStore(q)

\* C4: a PUT is handed to the backend exactly when allow-writes is on; with
\* allow-writes off it is answered by the synthesized 405 and the backend is
\* never called for it.
C4_WriteGating ==
    \A r \in Slots :
        LET q == reqs[r] IN
        (q.method = MethodPut /\ q.pc \in {"fetch", "body", "done"})
            => /\ q.pc = "fetch" => allowWrites
               /\ q.pc = "done" => (q.calls = 1 <=> allowWrites)
               /\ ~allowWrites => /\ q.calls = 0
                                  /\ q.pc = "done"
                                  /\ q.resp = [status |-> StatusMethodNotAllowed,
                                               date |-> <<>>, body |-> <<>>]

C4_Witness ==
    \E r \in Slots :
        /\ reqs[r].method = MethodPut
        /\ reqs[r].pc = "done"
        /\ ~allowWrites
        /\ reqs[r].resp.status = StatusMethodNotAllowed
        /\ reqs[r].calls = 0

\* The tee of q is in place: the backend answered and the body was wrapped.
Wrapped(q) == q.pc \in {"body", "done"} /\ q.R.end # "none"

\* The underlying stream of q signalled true end-of-data.
SawEOF(q) == q.R.ended /\ q.R.end = "EOF"

\* C5: however the caller reads (chunk sizes, number of Read calls, Read
\* calls after the end was signalled), the completion callback fires exactly
\* once, with all N bytes of the body, and only after the underlying stream
\* signalled EOF.
C5_CommitOnce ==
    \A r \in Slots :
        LET q == reqs[r] IN
        Wrapped(q)
            => /\ q.commits <= 1
               /\ q.commits >= 1 => SawEOF(q)
               /\ SawEOF(q) => /\ q.commits = 1
                               /\ q.buf = q.origin.body
                               /\ cache[q.path] = Stored(DumpResponse(q.origin))

\* C6: when the body ends by a read error that is not EOF, or the caller
\* closes it before end-of-data, the callback never fires, the store holds
\* under the key what it held when the body was wrapped, and the read error
\* is what the caller gets.
C6_NoPartialCaching ==
    \A r \in Slots :
        LET q == reqs[r] IN
        (Wrapped(q) /\ ~SawEOF(q))
            => /\ q.commits = 0
               /\ cache[q.path] = q.before
               /\ (q.R.ended /\ ~q.R.closed) => q.lastRead = "err"

C6_Witness ==
    \E r \in Slots :
        LET q == reqs[r] IN
        /\ Wrapped(q)
        /\ q.R.ended /\ q.R.end = "err"
        /\ q.lastRead = "err"
        /\ Len(q.buf) >= 1
        /\ Len(q.buf) < Len(q.origin.body)
        /\ q.extra = MaxExtraReads
        /\ q.commits = 0

\* C7: a GET decided HIT returns the response (status, headers, body) that
\* the last fully drained fetch of that key committed.
C7_HitRoundTrip ==
    \A r \in Slots :
        LET q == reqs[r] IN
        (q.pc = "done" /\ q.logAction = "CACHE_HIT")
            => /\ q.resp = committed[q.path]
               /\ q.resp.status \in BackendStatuses
               /\ q.resp.body = BodyOf(Len(q.resp.body))

C7_Witness ==
    \E r \in Slots :
        LET q == reqs[r] IN
        /\ q.pc = "done"
        /\ q.logAction = "CACHE_HIT"
        /\ Len(q.resp.body) = MaxBody
        /\ q.resp = committed[q.path]

\* A request the transport neither fetches nor serves from the store.
Dropped(q) ==
    /\ q.method # MethodGet
    /\ ~(q.method = MethodPut /\ allowWrites)

\* C8: a request whose method is neither GET nor a PUT with allow-writes on
\* gets the synthesized 405 with an empty body and no error, without any
\* backend call, and its RoundTrip leaves the store as it was.
C8_Drop ==
    /\ [](\A r \in Slots :
            (Dropped(reqs[r]) /\ reqs[r].pc \in {"fetch", "delete", "body", "done"})
                => /\ reqs[r].pc = "done"
                   /\ reqs[r].logAction = "DROP"
                   /\ reqs[r].resp.status = StatusMethodNotAllowed
                   /\ reqs[r].resp.body = <<>>
                   /\ reqs[r].err = ""
                   /\ reqs[r].calls = 0)
    /\ [][\A r \in Slots :
            (Dropped(reqs[r]) /\ reqs[r].pc = "roundtrip") => cache' = cache]_vars

C8_Witness ==
    \E r \in Slots :
        /\ reqs[r].method = "POST"
        /\ reqs[r].pc = "done"
        /\ reqs[r].logAction = "DROP"
        /\ reqs[r].resp.status = StatusMethodNotAllowed
        /\ \E k \in Keys : cache[k].ok

\* C9: a GET whose entry is malformed, or whose Date is missing or does not
\* parse, is handled as a MISS: the process keeps running, the request is
\* not aborted, and it is answered by a backend fetch.
C9_CacheReadErrorsFailOpen ==
    \A r \in Slots :
        LET q == reqs[r] IN
        (q.seenKind = "err" \/ (q.seenKind = "resp" /\ ~DateOK(q.seen)))
            => /\ alive
               /\ q.pc \in {"fetch", "body", "done"}
               /\ q.pc \in {"body", "done"} => q.calls = 1

\* C10: a failure to presign fails only the request at hand: it is not
\* forwarded, and the process keeps serving.
C10_PresignFailureIsLocal ==
    \A r \in Slots :
        reqs[r].presign = "failed" => alive /\ reqs[r].calls = 0

\* RoundTrip has ended for q: it returned, panicked, or ended the process.
RoundTripEnded(q) ==
    \/ q.pc \in {"body", "done", "panic"}
    \/ q.pc = "fatal" /\ q.seenKind # ""

DecisionTags ==
    {"CACHE_HIT", "CACHE_MISS", "CACHE_REFRESH", "DROP", "PASSTHROUGH", "ERROR"}

\* C11: on every control path of RoundTrip exactly one audit record is
\* written, and its tag is one of HIT, MISS, REFRESH, DROP, PASSTHROUGH,
\* ERROR.
C11_OneAuditRecord ==
    \A r \in Slots :
        RoundTripEnded(reqs[r])
            => /\ Len(reqs[r].audit) = 1
               /\ reqs[r].audit[1] \in DecisionTags

\* C12: with max-retries above 1, a fetch whose backend attempt fails is
\* attempted again before the failure is surfaced, and a request never makes
\* more attempts than the bound allows.
C12_FetchIsRetried ==
    \A r \in Slots :
        LET q == reqs[r] IN
        /\ q.calls <= maxRetries + 1
        /\ (maxRetries > 1 /\ q.pc = "done" /\ q.err = "transport") => q.calls > 1

\* C13: when the backend call of a fetch ends in an error, RoundTrip returns
\* that error with the tag ERROR, installs no tee, and nothing is committed
\* to the store for that request.
C13_BackendErrorNotCached ==
    \A r \in Slots :
        LET q == reqs[r] IN
        q.err # ""
            => /\ q.pc = "done"
               /\ q.err = "transport"
               /\ q.logAction = "ERROR"
               /\ q.audit = <<"ERROR">>
               /\ q.resp = NoResp
               /\ q.R = NoStream
               /\ q.commits = 0
               /\ cache[q.path] = q.before

C13_Witness ==
    \E r \in Slots :
        LET q == reqs[r] IN
        /\ q.err = "transport"
        /\ q.seenKind = "resp"
        /\ q.audit = <<"ERROR">>
        /\ cache[q.path] = Absent

\* s without any Slash at either end, said without trimming: the piece of s
\* between its leading and its trailing run of Slash.
IsSlashes(s) == \A i \in 1..Len(s) : s[i] = Slash

Stripped(s) ==
    CHOOSE t \in Strings :
        /\ t = <<>> \/ (t[1] # Slash /\ t[Len(t)] # Slash)
        /\ \E i \in 0..Len(s), j \in 0..Len(s) :
              /\ i + Len(t) + j = Len(s)
              /\ IsSlashes(SubSeq(s, 1, i))
              /\ t = SubSeq(s, i + 1, i + Len(t))
              /\ IsSlashes(SubSeq(s, i + Len(t) + 1, Len(s)))

\* C14: with t the path without its leading and trailing '/', effectiveKey
\* gives t for an empty prefix, the prefix for an empty t, and prefix/t
\* otherwise; the key neither starts nor ends with '/' when the prefix does
\* not.
C14_EffectiveKey ==
    ek.pc = "done"
        => LET t == Stripped(ek.path) IN
           /\ ek.prefix = <<>> => ek.key = t
           /\ (ek.prefix # <<>> /\ t = <<>>) => ek.key = ek.prefix
           /\ (ek.prefix # <<>> /\ t # <<>>) => ek.key = ek.prefix \o <<Slash>> \o t
           /\ (ek.prefix = <<>> \/ (ek.prefix[1] # Slash
                                     /\ ek.prefix[Len(ek.prefix)] # Slash))
                 => ek.key = <<>> \/ (ek.key[1] # Slash /\ ek.key[Len(ek.key)] # Slash)

C14_Witness ==
    /\ ek.pc = "done"
    /\ ek.prefix = <<"a">>
    /\ ek.path = <<Slash, "a", Slash>>
    /\ ek.key = <<"a", Slash, "a">>

\* C15: a request whose method is neither GET nor PUT never gets to the
\* director's unsupported-method branch: it never ends the process.
C15_DropBeforeDirector ==
    \A r \in Slots :
        reqs[r].method \notin {"", MethodGet, MethodPut}
            => reqs[r].pc # "fatal" /\ alive

\* q found an entry and decided to refresh it; the Delete is behind it.
Refreshing(q) ==
    /\ q.seenKind = "resp"
    /\ q.pc \in {"fetch", "body", "done"}
    /\ q.logAction \in {"CACHE_REFRESH", "ERROR"}

\* The request before q on its slot was a refresh of q's path whose fetch
\* failed or whose body was not read to the end.
AfterUndrainedRefresh(q) ==
    /\ q.pc \notin {"idle", "director", "roundtrip"}
    /\ q.method = MethodGet
    /\ q.prev.found = "resp"
    /\ q.prev.decision \in {"CACHE_REFRESH", "ERROR"}
    /\ q.prev.commits = 0
    /\ q.prev.path = q.path

\* C16: on a REFRESH the entry is deleted before the backend is contacted,
\* the key stays absent until the new body has been read to EOF, and the GET
\* that follows a refresh that failed or was not drained is a MISS.
C16_RefreshOrdering ==
    \A r \in Slots :
        LET q == reqs[r] IN
        /\ q.pc = "delete" => q.calls = 0
        /\ (Refreshing(q) /\ q.calls > 0) => q.before = Absent
        /\ (Refreshing(q) /\ q.commits = 0) => cache[q.path] = Absent
        /\ (Refreshing(q) /\ q.commits > 0)
              => q.lastRead = "EOF" /\ q.R.rem = <<>> /\ q.buf = q.origin.body
        /\ AfterUndrainedRefresh(q)
              => /\ q.seenKind = "none"
                 /\ q.logAction \in {"CACHE_MISS", "ERROR"}
                 /\ q.logAction = "ERROR" => q.err # ""

C16_Witness ==
    \E r \in Slots :
        LET q == reqs[r] IN
        /\ AfterUndrainedRefresh(q)
        /\ q.prev.decision = "CACHE_REFRESH"
        /\ q.prev.status = StatusOK
        /\ q.logAction = "CACHE_MISS"
        /\ q.calls = 1

\* The entry is a stored response with status 200.
SuccessEntry(e) ==
    /\ e.ok
    /\ ReadResponse(e.val).ok
    /\ ReadResponse(e.val).resp.status = StatusOK

\* C17: whatever the interleaving of concurrent GETs of one path, no step
\* of the transport takes a key that holds a success entry to absent.
C17_NeverDeletesSuccess ==
    [][\A k \in Keys : SuccessEntry(cache[k]) => cache'[k].ok]_vars

\* C18: under every interleaving of concurrent requests, what is stored
\* under a key is nothing, or the complete response (status, Date, every
\* body byte) of one backend fetch of that key.
C18_StoredIsOneCompleteFetch ==
    \A k \in Keys :
        cache[k].ok
            => /\ \E t \in 0..MaxTime :
                    committed[k] \in BackendResponses(k, t)
               /\ cache[k] = Stored(DumpResponse(committed[k]))

C18_Witness ==
    \E a \in Slots, b \in Slots :
        /\ a # b
        /\ reqs[a].commits = 1
        /\ reqs[a].origin.status = StatusOK
        /\ reqs[b].pc = "done"
        /\ reqs[b].path = reqs[a].path
        /\ reqs[b].R.closed
        /\ reqs[b].origin.status = StatusNotFound
        /\ cache[reqs[a].path] = Stored(DumpResponse(reqs[a].origin))
        /\ Len(reqs[a].origin.body) = MaxBody

\* q is not a GET with a cache configured.
Uncached(q) == q.method # MethodGet \/ ~cacheOn

\* The request before q on its slot was a PUT of q's path the backend
\* answered 200, made while the key held a non-success entry with a stored
\* time.
AfterPutOverFailure(q) ==
    /\ q.pc \notin {"idle", "director", "roundtrip"}
    /\ q.method = MethodGet
    /\ cacheOn
    /\ q.prev.method = MethodPut
    /\ q.prev.decision = "PASSTHROUGH"
    /\ q.prev.status = StatusOK
    /\ q.prev.path = q.path
    /\ q.prev.before.ok
    /\ ReadResponse(q.prev.before.val).ok
    /\ ReadResponse(q.prev.before.val).resp.status # StatusOK
    /\ DateOK(ReadResponse(q.prev.before.val).resp)

StoreFrame ==
    cache' # cache
        => \E r \in Slots :
              /\ reqs'[r] # reqs[r]
              /\ ~Uncached(reqs[r])
              /\ reqs[r].pc \in {"delete", "body"}

\* C19: only a GET with a cache configured reads, writes or deletes the
\* store; a PUT, a dropped request and a PASSTHROUGH GET leave it as it is.
\* After a PUT of p answered 200, a non-success entry cached for p before
\* is still there, and the GET of p that follows within the refresh delay
\* is a HIT with that entry.
C19_OnlyCachedGetsTouchStore ==
    /\ [][StoreFrame]_vars
    /\ [](\A r \in Slots :
            LET q == reqs[r] IN
            /\ Uncached(q) => q.seenKind = "" /\ q.commits = 0 /\ q.R = NoStream
            /\ (Uncached(q) /\ q.pc = "done" /\ q.calls > 0)
                  => cache[q.path] = q.before
            /\ AfterPutOverFailure(q)
                  => /\ q.prev.left = q.prev.before
                     /\ q.seen = ReadResponse(q.prev.before.val).resp
                     /\ Age(q) <= Delay => ServedFromStore(q))

C19_Witness ==
    \E r \in Slots :
        LET q == reqs[r] IN
        /\ AfterPutOverFailure(q)
        /\ ServedFromStore(q)
        /\ q.resp.status = StatusNotFound

\* The request before q on its slot was a GET of q's path, with any query,
\* whose response was committed.
AfterCommittedGet(q) ==
    /\ q.pc \notin {"idle", "director", "roundtrip"}
    /\ q.method = MethodGet
    /\ cacheOn
    /\ q.prev.method = MethodGet
    /\ q.prev.commits > 0
    /\ q.prev.path = q.path

\* The response that earlier GET committed.
FirstResponse(q) == ReadResponse(q.prev.left.val).resp

\* C20 as stated: the key depends on the path alone, so the second of two
\* GETs of one path, whatever their queries, finds the response the first
\* one committed and is a HIT with it.
C20_SecondIsHit ==
    \A r \in Slots :
        LET q == reqs[r] IN
        (AfterCommittedGet(q) /\ Found(q))
            => /\ q.seen = FirstResponse(q)
               /\ ServedFromStore(q)

\* C20, amended: the key depends on the path alone, so the second of two
\* GETs of one path, whatever their queries, finds the response the first
\* one committed; it is a HIT with it when that response is a success or no
\* older than the refresh delay, and a REFRESH when it is a non-success older
\* than the delay.
C20_SecondFindsFirst ==
    \A r \in Slots :
        LET q == reqs[r] IN
        AfterCommittedGet(q)
            => /\ q.prev.left.ok
               /\ q.seenKind = "resp"
               /\ q.seen = FirstResponse(q)
               /\ (Found(q) /\ (q.seen.status = StatusOK \/ Age(q) <= Delay))
                     => ServedFromStore(q)
               /\ (Found(q) /\ q.seen.status # StatusOK /\ Age(q) > Delay)
                     => Refreshes(q)

C20_Witness ==
    \E r \in Slots :
        LET q == reqs[r] IN
        /\ AfterCommittedGet(q)
        /\ q.query # q.prev.query
        /\ q.query # NoQuery
        /\ ServedFromStore(q)
        /\ q.resp = FirstResponse(q)
        /\ q.resp.status = StatusOK

====
